---- MODULE Spec2Model ----
(***************************************************************************)
(* BinarySearchTree (src/binary-search-tree.js): an unbalanced binary      *)
(* search tree whose nodes carry key, value, parent, leftChild and         *)
(* rightChild.  Node objects live in a heap indexed by object identity;    *)
(* the fields of the tree object are root and numNodes.                    *)
(***************************************************************************)
EXTENDS Integers, Sequences, FiniteSets, TLC

\* Keys are 1..MaxKey.  Keys are unique in a tree, so at most MaxKey node
\* objects are alive at once: object identities are 1..MaxKey too.
MaxKey == 5

\* JavaScript's null, and the result of a function that returns nothing.
Null == 0
Undefined == -1

Keys == 1..MaxKey
Ids == 1..MaxKey

\* The code stores a value and never looks at it: two values are enough to
\* tell any value from any other.
Values == {1, 2}

VARIABLES
    root,        \* BinarySearchTree.root: a node identity or Null
    numNodes,    \* BinarySearchTree.numNodes
    key,         \* key[n]: Node.key of object n (Null: no such object)
    value,       \* value[n]: Node.value
    parent,      \* parent[n]: Node.parent
    leftChild,   \* leftChild[n]: Node.leftChild
    rightChild,  \* rightChild[n]: Node.rightChild
    last,        \* the last call made on the tree and how it ended
    contents,    \* history: contents[k] is the value of the last successful
                 \* insert of k not followed by a successful remove of k
    call         \* the call in progress, when calls are followed one field
                 \* write at a time

vars == <<root, numNodes, key, value, parent, leftChild, rightChild, last, contents,
          call>>

\* The tree object and the heap of node objects, as one value the
\* operations below transform.
Tree == [root |-> root, numNodes |-> numNodes, key |-> key, value |-> value,
         parent |-> parent, leftChild |-> leftChild, rightChild |-> rightChild]

----------------------------------------------------------------------------
(* The heap *)

RECURSIVE Closure(_, _, _)
Closure(left, right, S) ==
    LET T == (S \cup {left[n] : n \in S} \cup {right[n] : n \in S}) \ {Null}
    IN  IF T = S THEN S ELSE Closure(left, right, T)

\* The node objects reachable from r along the child links left and right.
ReachableFrom(r, left, right) ==
    IF r = Null THEN {} ELSE Closure(left, right, {r})

\* The node objects reachable from root along child links.
Reachable(w) == ReachableFrom(w.root, w.leftChild, w.rightChild)

Free(w) == {n \in Ids : w.key[n] = Null}

\* new BinarySearchTree.prototype.Node(key, value, parent) as object n.
Node(w, n, k, v, p) ==
    [w EXCEPT !.key[n] = k, !.value[n] = v, !.parent[n] = p,
              !.leftChild[n] = Null, !.rightChild[n] = Null]

\* The identity of the next object constructed.  The code compares node
\* references for identity only, so any free identity stands for a fresh
\* object; picking by key keeps one heap per tree.
NewId(w, k) == IF k \in Free(w) THEN k ELSE CHOOSE n \in Free(w) : TRUE

----------------------------------------------------------------------------
(* BinarySearchTree.prototype.Node *)

RECURSIVE traverseLoop(_, _, _, _)
traverseLoop(w, ancestors, currNode, visited) ==
    IF currNode = Null
    THEN IF Len(ancestors) = 0
         THEN visited
         ELSE LET popped == ancestors[Len(ancestors)]
              IN  traverseLoop(w, SubSeq(ancestors, 1, Len(ancestors) - 1),
                               w.rightChild[popped], Append(visited, popped))
    ELSE traverseLoop(w, Append(ancestors, currNode), w.leftChild[currNode], visited)

\* The sequence of nodes the callback is called with.
Node_traverse(w, this) == traverseLoop(w, <<this>>, w.leftChild[this], <<>>)

\* Mutant: one step to the left instead of all the way.
Node_min_oneStep(w, this) ==
    IF w.leftChild[this] # Null THEN w.leftChild[this] ELSE this

RECURSIVE Node_min(_, _)
Node_min(w, this) ==
    IF w.leftChild[this] # Null THEN Node_min(w, w.leftChild[this]) ELSE this

RECURSIVE Node_max(_, _)
Node_max(w, this) ==
    IF w.rightChild[this] # Null THEN Node_max(w, w.rightChild[this]) ELSE this

\* Mutant: the first ancestor is returned, whichever side this node is on.
predecessorLoop_anySide(w, prevNode, currNode) == currNode

RECURSIVE predecessorLoop(_, _, _)
predecessorLoop(w, prevNode, currNode) ==
    IF currNode = Null THEN Null
    ELSE IF w.rightChild[currNode] = prevNode THEN currNode
    ELSE predecessorLoop(w, currNode, w.parent[currNode])

Node_predecessor(w, this) ==
    IF w.leftChild[this] # Null
    THEN Node_max(w, w.leftChild[this])
    ELSE predecessorLoop(w, this, w.parent[this])

RECURSIVE successorLoop(_, _, _)
successorLoop(w, prevNode, currNode) ==
    IF currNode = Null THEN Null
    ELSE IF w.leftChild[currNode] = prevNode THEN currNode
    ELSE successorLoop(w, currNode, w.parent[currNode])

Node_successor(w, this) ==
    IF w.rightChild[this] # Null
    THEN Node_min(w, w.rightChild[this])
    ELSE successorLoop(w, this, w.parent[this])

\* Mutant: the two comparisons lead to the wrong children.
RECURSIVE Node_get_swapped(_, _, _)
Node_get_swapped(w, this, k) ==
    LET next == IF k < w.key[this] THEN w.rightChild[this]
                ELSE IF k > w.key[this] THEN w.leftChild[this]
                ELSE this
    IN  IF next = this THEN this
        ELSE IF next # Null THEN Node_get_swapped(w, next, k)
        ELSE Null

RECURSIVE Node_get(_, _, _)
Node_get(w, this, k) ==
    LET next == IF k < w.key[this] THEN w.leftChild[this]
                ELSE IF k > w.key[this] THEN w.rightChild[this]
                ELSE this
    IN  IF next = this THEN this
        ELSE IF next # Null THEN Node_get(w, next, k)
        ELSE Null

\* The result of a call: the heap after it, the value returned, and whether
\* it ended by throwing.
Return(w, r) == [w |-> w, ret |-> r, thrown |-> FALSE]
Throw(w) == [w |-> w, ret |-> Undefined, thrown |-> TRUE]

RECURSIVE Node_insert(_, _, _, _)
Node_insert(w, this, k, v) ==
    IF k < w.key[this]
    THEN IF w.leftChild[this] = Null
         THEN LET n == NewId(w, k)
              IN  Return([Node(w, n, k, v, this) EXCEPT !.leftChild[this] = n], n)
         ELSE Node_insert(w, w.leftChild[this], k, v)
    ELSE IF k > w.key[this]
    THEN IF w.rightChild[this] = Null
         THEN LET n == NewId(w, k)
              IN  Return([Node(w, n, k, v, this) EXCEPT !.rightChild[this] = n], n)
         ELSE Node_insert(w, w.rightChild[this], k, v)
    ELSE Throw(w)

\* Mutant: the replaced node is also detached from its parent.
replaceWith_detaches(w, this, node) ==
    LET p == w.parent[this]
        w1 == IF node # Null THEN [w EXCEPT !.parent[node] = p] ELSE w
        w2 == IF p = Null THEN w1
              ELSE IF w1.leftChild[p] = this THEN [w1 EXCEPT !.leftChild[p] = node]
              ELSE [w1 EXCEPT !.rightChild[p] = node]
    IN  [w2 EXCEPT !.parent[this] = Null]

\* Mutant: the parent's rightChild is written, whichever side this node was on.
replaceWith_alwaysRight(w, this, node) ==
    LET p == w.parent[this]
        w1 == IF node # Null THEN [w EXCEPT !.parent[node] = p] ELSE w
    IN  IF p = Null THEN w1 ELSE [w1 EXCEPT !.rightChild[p] = node]

replaceWith(w, this, node) ==
    LET p == w.parent[this]
        w1 == IF node # Null THEN [w EXCEPT !.parent[node] = p] ELSE w
    IN  IF p = Null THEN w1
        ELSE IF w1.leftChild[p] = this THEN [w1 EXCEPT !.leftChild[p] = node]
        ELSE [w1 EXCEPT !.rightChild[p] = node]

\* Mutant: this node takes the child, which is not told its new parent.
adoptLeftChild_noParent(w, this, node) ==
    [w EXCEPT !.leftChild[this] = w.leftChild[node]]

adoptLeftChild(w, this, node) ==
    LET w1 == [w EXCEPT !.parent[w.leftChild[node]] = this]
    IN  [w1 EXCEPT !.leftChild[this] = w1.leftChild[node]]

\* Mutant: the adopted child learns its new parent, but this node's
\* rightChild is never set.
adoptRightChild_noLink(w, this, node) ==
    [w EXCEPT !.parent[w.rightChild[node]] = this]

adoptRightChild(w, this, node) ==
    LET w1 == [w EXCEPT !.parent[w.rightChild[node]] = this]
    IN  [w1 EXCEPT !.rightChild[this] = w1.rightChild[node]]

\* Mutant: a node with two children is replaced by its predecessor, whichever
\* side of its parent it is on.
removeSplice_alwaysPredecessor(w, this) ==
    IF w.rightChild[this] = Null
    THEN [w |-> w, replacementNode |-> w.leftChild[this], branch |-> "leftChild"]
    ELSE IF w.leftChild[this] = Null
    THEN [w |-> w, replacementNode |-> w.rightChild[this], branch |-> "rightChild"]
    ELSE LET r == Node_max(w, w.leftChild[this])
             deep == r # w.leftChild[this]
             w1 == IF deep
                   THEN adoptLeftChild(replaceWith(w, r, w.leftChild[r]), r, this)
                   ELSE w
         IN  [w |-> adoptRightChild(w1, r, this), replacementNode |-> r,
              branch |-> IF deep THEN "deep predecessor" ELSE "predecessor"]

\* Mutant: a replacement found deeper in the subtree is not taken out of its
\* old place before it adopts the children of the removed node.
removeSplice_noUnlink(w, this) ==
    IF w.rightChild[this] = Null
    THEN [w |-> w, replacementNode |-> w.leftChild[this], branch |-> "leftChild"]
    ELSE IF w.leftChild[this] = Null
    THEN [w |-> w, replacementNode |-> w.rightChild[this], branch |-> "rightChild"]
    ELSE IF w.parent[this] = Null \/ w.leftChild[w.parent[this]] = this
    THEN LET r == Node_max(w, w.leftChild[this])
             deep == r # w.leftChild[this]
             w1 == IF deep THEN adoptLeftChild(w, r, this) ELSE w
         IN  [w |-> adoptRightChild(w1, r, this), replacementNode |-> r,
              branch |-> IF deep THEN "deep predecessor" ELSE "predecessor"]
    ELSE LET r == Node_min(w, w.rightChild[this])
             deep == r # w.rightChild[this]
             w1 == IF deep THEN adoptRightChild(w, r, this) ELSE w
         IN  [w |-> adoptLeftChild(w1, r, this), replacementNode |-> r,
              branch |-> IF deep THEN "deep successor" ELSE "successor"]

\* The replacement node Node.remove chooses, the branch that chooses it, and
\* the heap once the replacement has taken over the removed node's children.
removeSplice(w, this) ==
    IF w.rightChild[this] = Null
    THEN [w |-> w, replacementNode |-> w.leftChild[this], branch |-> "leftChild"]
    ELSE IF w.leftChild[this] = Null
    THEN [w |-> w, replacementNode |-> w.rightChild[this], branch |-> "rightChild"]
    ELSE IF w.parent[this] = Null \/ w.leftChild[w.parent[this]] = this
    THEN LET r == Node_max(w, w.leftChild[this])
             deep == r # w.leftChild[this]
             w1 == IF deep
                   THEN adoptLeftChild(replaceWith(w, r, w.leftChild[r]), r, this)
                   ELSE w
         IN  [w |-> adoptRightChild(w1, r, this), replacementNode |-> r,
              branch |-> IF deep THEN "deep predecessor" ELSE "predecessor"]
    ELSE LET r == Node_min(w, w.rightChild[this])
             deep == r # w.rightChild[this]
             w1 == IF deep
                   THEN adoptRightChild(replaceWith(w, r, w.rightChild[r]), r, this)
                   ELSE w
         IN  [w |-> adoptLeftChild(w1, r, this), replacementNode |-> r,
              branch |-> IF deep THEN "deep successor" ELSE "successor"]

\* Mutant: the common implementation the code's comments reject: a node with
\* two children stays in place and takes over the key and the value of its
\* predecessor, which is spliced out instead.
Node_remove_copying(w, this) ==
    IF w.leftChild[this] # Null /\ w.rightChild[this] # Null
    THEN LET r == Node_max(w, w.leftChild[this])
             w1 == replaceWith(w, r, w.leftChild[r])
         IN  Return([w1 EXCEPT !.key[this] = w.key[r], !.value[this] = w.value[r]],
                    this)
    ELSE LET s == removeSplice(w, this)
         IN  Return(replaceWith(s.w, this, s.replacementNode), s.replacementNode)

\* Mutant: a node with two children is replaced by its right child, and its
\* left subtree is hung below the minimum of its right subtree.
Node_remove_hangLeft(w, this) ==
    IF w.leftChild[this] # Null /\ w.rightChild[this] # Null
    THEN LET r == w.rightChild[this]
             l == w.leftChild[this]
             m == Node_min(w, r)
             w1 == [w EXCEPT !.leftChild[m] = l, !.parent[l] = m]
         IN  Return(replaceWith(w1, this, r), r)
    ELSE LET s == removeSplice(w, this)
         IN  Return(replaceWith(s.w, this, s.replacementNode), s.replacementNode)

Node_remove(w, this) ==
    LET s == removeSplice(w, this)
    IN  Return(replaceWith(s.w, this, s.replacementNode), s.replacementNode)

----------------------------------------------------------------------------
(* BinarySearchTree *)

BST_traverse(w) == IF w.root # Null THEN Node_traverse(w, w.root) ELSE <<>>

BST_min(w) == IF w.root = Null THEN Null ELSE Node_min(w, w.root)

BST_max(w) == IF w.root = Null THEN Null ELSE Node_max(w, w.root)

BST_get(w, k) == IF w.root = Null THEN Null ELSE Node_get(w, w.root, k)

\* Mutant: numNodes is incremented before the insertion is attempted, so a
\* duplicate key is counted although it throws.
BST_insert_countsFirst(w, k, v) ==
    LET w0 == [w EXCEPT !.numNodes = @ + 1]
        r == IF w0.root = Null
             THEN LET n == NewId(w0, k)
                  IN  Return([Node(w0, n, k, v, Null) EXCEPT !.root = n], n)
             ELSE Node_insert(w0, w0.root, k, v)
    IN  IF r.thrown THEN Throw(r.w) ELSE Return(r.w, Undefined)

BST_insert(w, k, v) ==
    LET r == IF w.root = Null
             THEN LET n == NewId(w, k)
                  IN  Return([Node(w, n, k, v, Null) EXCEPT !.root = n], n)
             ELSE Node_insert(w, w.root, k, v)
    IN  IF r.thrown THEN Throw(r.w)
        ELSE Return([r.w EXCEPT !.numNodes = @ + 1], Undefined)

\* Mutant: numNodes is decremented before the key is looked up, so an absent
\* key is counted although it throws.
BST_remove_countsFirst(w, k) ==
    LET w0 == [w EXCEPT !.numNodes = @ - 1]
        nodeToRemove == BST_get(w0, k)
    IN  IF nodeToRemove = Null THEN Throw(w0)
        ELSE LET r == Node_remove(w0, nodeToRemove)
             IN  Return(IF r.w.root = nodeToRemove
                        THEN [r.w EXCEPT !.root = r.ret]
                        ELSE r.w, Undefined)

\* Mutant: numNodes is not decremented.
BST_remove_keepsCount(w, k) ==
    LET nodeToRemove == BST_get(w, k)
    IN  IF nodeToRemove = Null THEN Throw(w)
        ELSE LET r == Node_remove(w, nodeToRemove)
             IN  Return(IF r.w.root = nodeToRemove
                        THEN [r.w EXCEPT !.root = r.ret]
                        ELSE r.w, Undefined)

BST_remove(w, k) ==
    LET nodeToRemove == BST_get(w, k)
    IN  IF nodeToRemove = Null THEN Throw(w)
        ELSE LET r == Node_remove(w, nodeToRemove)
                 w1 == IF r.w.root = nodeToRemove
                       THEN [r.w EXCEPT !.root = r.ret]
                       ELSE r.w
             IN  Return([w1 EXCEPT !.numNodes = @ - 1], Undefined)

BST_size(w) == w.numNodes

----------------------------------------------------------------------------
(* The calls a program makes on one tree *)

\* last.branch: the branch of Node.remove the call ran, if it ran one.
NoCall == [op |-> "new", ret |-> Undefined, thrown |-> FALSE, branch |-> "none"]

\* No call is in progress.
Idle == [op |-> "none", key |-> Null, value |-> Null, node |-> Null,
         thrown |-> FALSE, branch |-> "none", done |-> 0, todo |-> <<>>]

Init ==
    /\ root = Null
    /\ numNodes = 0
    /\ key = [n \in Ids |-> Null]
    /\ value = [n \in Ids |-> Null]
    /\ parent = [n \in Ids |-> Null]
    /\ leftChild = [n \in Ids |-> Null]
    /\ rightChild = [n \in Ids |-> Null]
    /\ last = NoCall
    /\ contents = [k \in Keys |-> Null]
    /\ call = Idle

\* The fields of the tree and of its nodes.
HeapVars == <<root, numNodes, key, value, parent, leftChild, rightChild>>

Becomes(w) ==
    /\ root' = w.root
    /\ numNodes' = w.numNodes
    /\ key' = w.key
    /\ value' = w.value
    /\ parent' = w.parent
    /\ leftChild' = w.leftChild
    /\ rightChild' = w.rightChild

\* The node tree.remove evicted is unreachable from the tree, and the caller,
\* to whom tree.remove returns nothing, holds no reference to it: its storage
\* is reclaimed, so that its identity can stand for a new object.
Reclaim(w, n) == Node(w, n, Null, Null, Null)

\* tree.insert(k, v)
Insert(k, v) ==
    LET r == BST_insert(Tree, k, v)
    IN  /\ Becomes(r.w)
        /\ last' = [op |-> "insert", ret |-> r.ret, thrown |-> r.thrown,
                    branch |-> "none"]
        /\ contents' = IF r.thrown THEN contents ELSE [contents EXCEPT ![k] = v]
        /\ call' = call

\* tree.remove(k)
Remove(k) ==
    LET r == BST_remove(Tree, k)
    IN  /\ Becomes(IF r.thrown THEN r.w ELSE Reclaim(r.w, BST_get(Tree, k)))
        /\ last' = [op |-> "remove", ret |-> r.ret, thrown |-> r.thrown,
                    branch |-> IF r.thrown THEN "none"
                               ELSE removeSplice(Tree, BST_get(Tree, k)).branch]
        /\ contents' = IF r.thrown THEN contents ELSE [contents EXCEPT ![k] = Null]
        /\ call' = call

Next ==
    \/ \E k \in Keys, v \in Values : Insert(k, v)
    \/ \E k \in Keys : Remove(k)

Spec == Init /\ [][Next]_vars

----------------------------------------------------------------------------
(* A program that also calls remove() on a node *)

\* node.remove() on the node tree.get(k) returned.  The call reads and writes
\* node objects only: the tree object, its root and numNodes, is out of its
\* reach.  The caller still holds the node, so nothing is reclaimed.
NodeRemove(k) ==
    LET node == BST_get(Tree, k)
        r == Node_remove(Tree, node)
    IN  /\ last.op # "Node.remove"
        /\ node # Null
        /\ Becomes(r.w)
        /\ last' = [op |-> "Node.remove", ret |-> r.ret, thrown |-> r.thrown,
                    branch |-> removeSplice(Tree, node).branch]
        /\ contents' = [contents EXCEPT ![k] = Null]
        /\ call' = call

\* Calls on the tree, then one call of remove() on one of its nodes.
NextNode ==
    \/ last.op # "Node.remove" /\ Next
    \/ \E k \in Keys : NodeRemove(k)

SpecNode == Init /\ [][NextNode]_vars

----------------------------------------------------------------------------
(* The calls, one field write at a time *)

\* A call is followed as the sequence of heaps its field writes produce, one
\* heap per assignment to a field of the tree or of a node that the tree can
\* reach.  The constructor's writes to the fields of the node it creates fall
\* in with the write that links the node: until then no one can reach it.

\* The heap after the writes steps, made from the heap w.
After(w, steps) == IF steps = <<>> THEN w ELSE steps[Len(steps)]

replaceWith_steps(w, this, node) ==
    LET p == w.parent[this]
        s1 == IF node # Null THEN <<[w EXCEPT !.parent[node] = p]>> ELSE <<>>
        w1 == After(w, s1)
    IN  IF p = Null THEN s1
        ELSE IF w1.leftChild[p] = this
        THEN s1 \o <<[w1 EXCEPT !.leftChild[p] = node]>>
        ELSE s1 \o <<[w1 EXCEPT !.rightChild[p] = node]>>

adoptLeftChild_steps(w, this, node) ==
    LET w1 == [w EXCEPT !.parent[w.leftChild[node]] = this]
    IN  <<w1, [w1 EXCEPT !.leftChild[this] = w1.leftChild[node]]>>

adoptRightChild_steps(w, this, node) ==
    LET w1 == [w EXCEPT !.parent[w.rightChild[node]] = this]
    IN  <<w1, [w1 EXCEPT !.rightChild[this] = w1.rightChild[node]]>>

Node_remove_steps(w, this) ==
    IF w.rightChild[this] = Null
    THEN replaceWith_steps(w, this, w.leftChild[this])
    ELSE IF w.leftChild[this] = Null
    THEN replaceWith_steps(w, this, w.rightChild[this])
    ELSE IF w.parent[this] = Null \/ w.leftChild[w.parent[this]] = this
    THEN LET r == Node_max(w, w.leftChild[this])
             a == IF r # w.leftChild[this]
                  THEN LET s1 == replaceWith_steps(w, r, w.leftChild[r])
                       IN  s1 \o adoptLeftChild_steps(After(w, s1), r, this)
                  ELSE <<>>
             b == a \o adoptRightChild_steps(After(w, a), r, this)
         IN  b \o replaceWith_steps(After(w, b), this, r)
    ELSE LET r == Node_min(w, w.rightChild[this])
             a == IF r # w.rightChild[this]
                  THEN LET s1 == replaceWith_steps(w, r, w.rightChild[r])
                       IN  s1 \o adoptRightChild_steps(After(w, s1), r, this)
                  ELSE <<>>
             b == a \o adoptLeftChild_steps(After(w, a), r, this)
         IN  b \o replaceWith_steps(After(w, b), this, r)

\* Mutant: the node is linked and counted by one write.
BST_insert_steps_atomic(w, k, v) == <<BST_insert(w, k, v).w>>

\* The writes of a tree.insert(k, v) that does not throw.
BST_insert_steps(w, k, v) ==
    LET linked == IF w.root = Null
                  THEN LET n == NewId(w, k)
                       IN  [Node(w, n, k, v, Null) EXCEPT !.root = n]
                  ELSE Node_insert(w, w.root, k, v).w
    IN  <<linked, [linked EXCEPT !.numNodes = @ + 1]>>

\* The writes of a tree.remove(k) that does not throw.
BST_remove_steps(w, k) ==
    LET nodeToRemove == BST_get(w, k)
        a == Node_remove_steps(w, nodeToRemove)
        replacementNode == removeSplice(w, nodeToRemove).replacementNode
        w1 == After(w, a)
        b == IF w1.root = nodeToRemove
             THEN a \o <<[w1 EXCEPT !.root = replacementNode]>>
             ELSE a
    IN  b \o <<[After(w, b) EXCEPT !.numNodes = @ - 1]>>

\* tree.insert(k, v) is called.
InsertCall(k, v) ==
    LET thrown == BST_insert(Tree, k, v).thrown
    IN  /\ call = Idle
        /\ call' = [op |-> "insert", key |-> k, value |-> v, node |-> Null,
                    thrown |-> thrown, branch |-> "none", done |-> 0,
                    todo |-> IF thrown THEN <<>> ELSE BST_insert_steps(Tree, k, v)]
        /\ UNCHANGED <<HeapVars, last, contents>>

\* tree.remove(k) is called.
RemoveCall(k) ==
    LET nodeToRemove == BST_get(Tree, k)
        thrown == nodeToRemove = Null
    IN  /\ call = Idle
        /\ call' = [op |-> "remove", key |-> k, value |-> Null,
                    node |-> nodeToRemove, thrown |-> thrown,
                    branch |-> IF thrown THEN "none"
                               ELSE removeSplice(Tree, nodeToRemove).branch,
                    done |-> 0,
                    todo |-> IF thrown THEN <<>> ELSE BST_remove_steps(Tree, k)]
        /\ UNCHANGED <<HeapVars, last, contents>>

\* The call in progress makes its next field write.
FieldWrite ==
    /\ call.todo # <<>>
    /\ Becomes(Head(call.todo))
    /\ call' = [call EXCEPT !.todo = Tail(@), !.done = @ + 1]
    /\ UNCHANGED <<last, contents>>

\* The call in progress returns or throws.  What a tree.remove evicted is
\* reclaimed, as in Remove.
ReturnCall ==
    /\ call # Idle
    /\ call.todo = <<>>
    /\ Becomes(IF call.op = "remove" /\ ~call.thrown
               THEN Reclaim(Tree, call.node) ELSE Tree)
    /\ last' = [op |-> call.op, ret |-> Undefined, thrown |-> call.thrown,
                branch |-> call.branch]
    /\ contents' = IF call.thrown THEN contents
                   ELSE [contents EXCEPT ![call.key] = call.value]
    /\ call' = Idle

NextSteps ==
    \/ \E k \in Keys, v \in Values : InsertCall(k, v)
    \/ \E k \in Keys : RemoveCall(k)
    \/ FieldWrite
    \/ ReturnCall

SpecSteps == Init /\ [][NextSteps]_vars

----------------------------------------------------------------------------
(* What the claims speak of *)

\* The keys inserted and not since removed.
Present == {k \in Keys : contents[k] # Null}

\* The nodes of the tree.
Nodes == Reachable(Tree)

\* The keys, and the (key, value) pairs, in the order traverse visits them.
TraversedKeys(w) ==
    LET t == BST_traverse(w) IN [i \in 1..Len(t) |-> w.key[t[i]]]

TraversedPairs(w) ==
    LET t == BST_traverse(w) IN [i \in 1..Len(t) |-> <<w.key[t[i]], w.value[t[i]]>>]

StrictlyAscending(s) == \A i \in 1..(Len(s) - 1) : s[i] < s[i + 1]

Children(n) == Cardinality({leftChild[n], rightChild[n]} \ {Null})

\* C1: after any sequence of insert and remove calls, failing ones included,
\* traverse visits exactly the keys inserted and not since removed, each once,
\* in strictly ascending order.
C1_TraverseAscending ==
    LET ks == TraversedKeys(Tree)
    IN  /\ StrictlyAscending(ks)
        /\ {ks[i] : i \in 1..Len(ks)} = Present
        /\ Len(ks) = Cardinality(Present)

\* C1 witness: a key has just been removed from a full tree, and the root of
\* what remains has two children.
C1_Witness ==
    /\ last.op = "remove" /\ ~last.thrown
    /\ Cardinality(Present) = MaxKey - 1
    /\ Len(BST_traverse(Tree)) = MaxKey - 1
    /\ root # Null /\ Children(root) = 2

\* C2: size() is the number of nodes reachable from root, which is the number
\* of nodes a full traverse visits.
C2_SizeIsNodeCount ==
    /\ BST_size(Tree) = Cardinality(Nodes)
    /\ BST_size(Tree) = Len(BST_traverse(Tree))

\* C2 witness: a call has just failed on a tree of three nodes or more.
C2_Witness == last.thrown /\ BST_size(Tree) >= 3 /\ Cardinality(Nodes) >= 3

\* C3: a successful insert(key, value) returns the node it created, the node
\* a get(key) made right after it returns, whether or not the tree was empty.
C3_InsertReturnsCreatedNode ==
    [][\A k \in Keys, v \in Values :
          (last'.op = "insert" /\ ~last'.thrown /\ Insert(k, v))
              => last'.ret = BST_get(Tree, k)']_vars

\* The step is a successful tree.remove(k) of a key k that was present.
Removes(k) ==
    /\ last'.op = "remove"
    /\ contents[k] # Null /\ contents'[k] = Null
    /\ Remove(k)

\* C4: remove(k) with k present changes the key and the value of no node but
\* the removed one, and every other node of the tree is still reachable from
\* root afterwards, as the same object.
C4_RemoveKeepsOtherNodes ==
    [][\A k \in Keys :
          Removes(k) =>
              LET after == ReachableFrom(root', leftChild', rightChild')
              IN  \A n \in Nodes \ {BST_get(Tree, k)} :
                      /\ key'[n] = key[n]
                      /\ value'[n] = value[n]
                      /\ n \in after]_vars

\* C4 witness: a right child with two children has just been removed, its
\* successor, found deeper in its right subtree, taking its place; the nodes
\* that remain hold both values.
C4_Witness ==
    /\ last.op = "remove" /\ ~last.thrown /\ last.branch = "deep successor"
    /\ {value[n] : n \in Nodes} = Values

\* C5: insert(k, v) with k present throws and leaves the tree as it was:
\* root, size() and every field of every node.
C5_DuplicateInsertChangesNothing ==
    [][\A k \in Keys, v \in Values :
          (last'.op = "insert" /\ BST_get(Tree, k) # Null /\ Insert(k, v))
              => last'.thrown /\ UNCHANGED HeapVars /\ BST_size(Tree)' = BST_size(Tree)]_vars

\* C5 witness: an insert has just thrown on a tree of three nodes or more.
C5_Witness == last.op = "insert" /\ last.thrown /\ Cardinality(Nodes) >= 3

\* C6: remove(k) with k absent, on an empty tree too, throws and leaves the
\* tree as it was: root, size() and every field of every node.
C6_AbsentRemoveChangesNothing ==
    [][\A k \in Keys :
          (last'.op = "remove" /\ BST_get(Tree, k) = Null /\ Remove(k))
              => last'.thrown /\ UNCHANGED HeapVars /\ BST_size(Tree)' = BST_size(Tree)]_vars

\* C6 witness: a remove has just thrown on a tree of three nodes or more.
C6_Witness == last.op = "remove" /\ last.thrown /\ Cardinality(Nodes) >= 3

\* C6 on the empty tree: a remove has just thrown there.
C6_WitnessEmpty == last.op = "remove" /\ last.thrown /\ root = Null

\* C7: the tree is a map from keys to values: get(k) returns a node holding
\* k and the value of the last successful insert of k if k was inserted and
\* not since removed, and null otherwise, on the empty tree too.
C7_GetIsTheMap ==
    \A k \in Keys :
        LET n == BST_get(Tree, k)
        IN  IF contents[k] # Null
            THEN n \in Ids /\ key[n] = k /\ value[n] = contents[k]
            ELSE n = Null

\* C7 witness: after a successful insert the tree holds both values, on three
\* nodes or more, and some key is absent.
C7_Witness ==
    /\ last.op = "insert" /\ ~last.thrown
    /\ {contents[k] : k \in Present} = Values
    /\ Cardinality(Present) >= 3 /\ Present # Keys

\* The node of the greatest key below that of n, and of the least key above.
NodeBefore(n) ==
    LET below == {m \in Nodes : key[m] < key[n]}
    IN  IF below = {} THEN Null
        ELSE CHOOSE m \in below : \A x \in below : key[x] <= key[m]

NodeAfter(n) ==
    LET above == {m \in Nodes : key[m] > key[n]}
    IN  IF above = {} THEN Null
        ELSE CHOOSE m \in above : \A x \in above : key[x] >= key[m]

\* C8: for every node n of the tree, n.predecessor() is the node of the
\* greatest key below n.key, null at the minimum, and n.successor() the node of
\* the least key above it, null at the maximum; so each undoes the other
\* wherever it is not null.
C8_PredecessorSuccessor ==
    \A n \in Nodes :
        LET p == Node_predecessor(Tree, n)
            s == Node_successor(Tree, n)
        IN  /\ p = NodeBefore(n)
            /\ s = NodeAfter(n)
            /\ p # Null => Node_successor(Tree, p) = n
            /\ s # Null => Node_predecessor(Tree, s) = n

\* C8 witness: after a removal, some node without a left child has a
\* predecessor that is an ancestor other than its parent, and some node
\* without a right child a successor that is an ancestor other than its parent.
C8_Witness ==
    /\ last.op = "remove" /\ ~last.thrown
    /\ \E n \in Nodes : /\ leftChild[n] = Null
                        /\ Node_predecessor(Tree, n) \notin {Null, parent[n]}
    /\ \E n \in Nodes : /\ rightChild[n] = Null
                        /\ Node_successor(Tree, n) \notin {Null, parent[n]}

\* C9: Node.remove() leaves the key, value, parent, leftChild and rightChild
\* of the node it removes as they were, whichever node of the tree it is
\* called on.
C9_RemoveLeavesRemovedNode ==
    \A n \in Nodes :
        LET w == Node_remove(Tree, n).w
        IN  /\ w.key[n] = key[n]
            /\ w.value[n] = value[n]
            /\ w.parent[n] = parent[n]
            /\ w.leftChild[n] = leftChild[n]
            /\ w.rightChild[n] = rightChild[n]

\* The branches of Node.remove that the nodes of the tree would run.
Branches == {removeSplice(Tree, n).branch : n \in Nodes}

\* C9 witness: a right child with two children has just been removed, a
\* deeper successor taking its place, and the tree still has a node with two
\* children, a node with one and a leaf to call Node.remove() on.
C9_Witness ==
    /\ last.op = "remove" /\ last.branch = "deep successor"
    /\ Branches \cap {"predecessor", "successor"} # {}
    /\ \E n \in Nodes : Children(n) = 1
    /\ \E n \in Nodes : Children(n) = 0

\* C10: on any reachable tree, insert(k, v) of an absent key k followed at
\* once by remove(k) gives a tree with the same in-order sequence of (key,
\* value) pairs and the same size() as before the insert.
C10_InsertThenRemove ==
    \A k \in Keys \ Present, v \in Values :
        LET inserted == BST_insert(Tree, k, v)
            removed == BST_remove(inserted.w, k)
        IN  /\ ~inserted.thrown /\ ~removed.thrown
            /\ TraversedPairs(removed.w) = TraversedPairs(Tree)
            /\ BST_size(removed.w) = BST_size(Tree)

\* C10 witness: a key inserted below the root has just been removed again as
\* a leaf, from a tree that keeps three nodes or more and both values.
C10_Witness ==
    /\ last.op = "remove" /\ ~last.thrown /\ last.branch = "leftChild"
    /\ Cardinality(Nodes) >= 3
    /\ {value[n] : n \in Nodes} = Values
    /\ Present # Keys

\* C11: remove() called on a node of the tree, the root included, removes that
\* node: afterwards tree.get of its key returns null, and traverse visits every
\* other node of the tree, in ascending order of keys, and not the node.
C11_NodeRemoveEvicts ==
    [][\A k \in Keys :
          NodeRemove(k) =>
              LET node == BST_get(Tree, k)
                  t == BST_traverse(Tree)'
              IN  /\ BST_get(Tree, k)' = Null
                  /\ {t[i] : i \in 1..Len(t)} = Nodes \ {node}
                  /\ Len(t) = Cardinality(Nodes) - 1
                  /\ StrictlyAscending(TraversedKeys(Tree)')]_vars

\* C12: size() is the number of nodes reachable from root after remove() was
\* called on a node of the tree, too.
C12_SizeAfterNodeRemove ==
    last.op = "Node.remove" => BST_size(Tree) = Cardinality(Nodes)

\* C13: Node.remove() returns the node that occupies the place of the removed
\* node: under a parent p of which the removed node was the left (right)
\* child, p.leftChild (p.rightChild) is afterwards the returned value, whose
\* parent, when it is a node, is p; removing the root returns a node whose
\* parent is null, and tree.remove makes the returned value the root; null is
\* returned exactly when the removed node had no child.
C13_RemoveReturnsOccupant ==
    \A n \in Nodes :
        LET r == Node_remove(Tree, n)
            p == parent[n]
        IN  /\ ~r.thrown
            /\ r.ret # n
            /\ (p # Null /\ leftChild[p] = n) =>
                   /\ r.w.leftChild[p] = r.ret
                   /\ r.ret # Null => r.w.parent[r.ret] = p
            /\ (p # Null /\ rightChild[p] = n) =>
                   /\ r.w.rightChild[p] = r.ret
                   /\ r.ret # Null => r.w.parent[r.ret] = p
            /\ n = root =>
                   /\ r.ret # Null => r.w.parent[r.ret] = Null
                   /\ BST_remove(Tree, key[n]).w.root = r.ret
            /\ r.ret = Null <=> Children(n) = 0

\* C13 witness: after a removal that promoted a deeper predecessor, the root
\* has a child, a left child has a child of its own, a right child has one
\* too or is a leaf, and some node is a leaf.
C13_Witness ==
    /\ last.op = "remove" /\ last.branch = "deep predecessor"
    /\ root # Null /\ Children(root) >= 1
    /\ \E n \in Nodes : /\ parent[n] # Null /\ leftChild[parent[n]] = n
                        /\ Children(n) >= 1
    /\ \E n \in Nodes : parent[n] # Null /\ rightChild[parent[n]] = n
    /\ \E n \in Nodes : Children(n) = 0

\* The nodes of the subtree rooted at n.
Subtree(n) == ReachableFrom(n, leftChild, rightChild)

\* C14: min() and max() return the node of the least and of the greatest key
\* of the tree, and null exactly when the tree is empty; n.min() and n.max()
\* return the node of the least and of the greatest key of the subtree rooted
\* at n, for every node n of the tree.
C14_MinMax ==
    /\ BST_min(Tree) = Null <=> Present = {}
    /\ BST_max(Tree) = Null <=> Present = {}
    /\ Present # {} =>
           /\ BST_min(Tree) \in Nodes /\ BST_max(Tree) \in Nodes
           /\ \A k \in Present : key[BST_min(Tree)] <= k /\ k <= key[BST_max(Tree)]
    /\ \A n \in Nodes :
           LET lo == Node_min(Tree, n)
               hi == Node_max(Tree, n)
               sub == Subtree(n)
           IN  /\ lo \in sub /\ hi \in sub
               /\ \A m \in sub : key[lo] <= key[m] /\ key[m] <= key[hi]

\* C14 witness: after an insertion the minimum and the maximum of the tree
\* are both below the root, and some node other than the root is neither the
\* minimum nor the maximum of its own subtree.
C14_Witness ==
    /\ last.op = "insert" /\ ~last.thrown
    /\ root # Null /\ BST_min(Tree) # root /\ BST_max(Tree) # root
    /\ \E n \in Nodes \ {root} : Node_min(Tree, n) # n /\ Node_max(Tree, n) # n

\* The node of the greatest, and of the least, key among the nodes S.
MaxOf(S) == CHOOSE m \in S : \A x \in S : key[x] <= key[m]
MinOf(S) == CHOOSE m \in S : \A x \in S : key[m] <= key[x]

\* C15: the node that takes the place of a removed node n is its left child
\* (or none) if n has no right child; else its right child if n has no left
\* child; else, n having both, the maximum of its left subtree, its
\* predecessor, if n is the root or the left child of its parent, and the
\* minimum of its right subtree, its successor, if n is the right child of its
\* parent.  The root with two children is always replaced by its predecessor.
C15_ReplacementChoice ==
    \A n \in Nodes :
        LET r == Node_remove(Tree, n).ret
        IN  IF rightChild[n] = Null THEN r = leftChild[n]
            ELSE IF leftChild[n] = Null THEN r = rightChild[n]
            ELSE IF n = root \/ leftChild[parent[n]] = n
            THEN r = MaxOf(Subtree(leftChild[n])) /\ r = NodeBefore(n)
            ELSE /\ rightChild[parent[n]] = n
                 /\ r = MinOf(Subtree(rightChild[n])) /\ r = NodeAfter(n)

\* C15 witness: a right child with two children has just been replaced by
\* its successor, its own right child; in the tree that remains the root has
\* two children and some node has one.
C15_Witness ==
    /\ last.op = "remove" /\ last.branch = "successor"
    /\ root # Null /\ Children(root) = 2
    /\ "predecessor" \in Branches
    /\ \E n \in Nodes : Children(n) = 1

\* The child and parent links of the heap w agree with each other on the
\* nodes reachable from w.root.
LinksAgree(w) ==
    /\ w.root # Null => w.parent[w.root] = Null
    /\ \A n \in Reachable(w) :
           /\ w.leftChild[n] # Null => w.parent[w.leftChild[n]] = n
           /\ w.rightChild[n] # Null => w.parent[w.rightChild[n]] = n

\* C16: after every completed insert or remove, every node n reachable from
\* root is the parent of its left child and of its right child, where it has
\* them, and the parent of root is null.
C16_LinksConsistent == LinksAgree(Tree)

\* C16 witness: the root, which had two children, has just been replaced by a
\* predecessor found deeper in its left subtree, and the new root has two
\* children again.
C16_Witness ==
    /\ last.op = "remove" /\ last.branch = "deep predecessor"
    /\ root # Null /\ Children(root) = 2
    /\ parent[leftChild[root]] = root /\ parent[rightChild[root]] = root

\* The node objects that are in the tree when the call in progress returns:
\* every object but the one a tree.remove in progress evicts.
Survivors == {n \in Ids : key[n] # Null} \ {call.node}

\* A reader would find the tree torn: a surviving node cannot be reached from
\* root, or a reachable node has a child whose parent is another node.
Torn ==
    \/ \E n \in Survivors : n \notin Nodes
    \/ \E n \in Nodes :
           \/ leftChild[n] # Null /\ parent[leftChild[n]] # n
           \/ rightChild[n] # Null /\ parent[rightChild[n]] # n

TwoChildBranches == {"predecessor", "deep predecessor", "successor", "deep successor"}

\* C17: a call is not atomic at the granularity of its field writes.  A
\* tree.remove of a node with two children passes through a state in which a
\* surviving node is unreachable from root or a reachable node has a child
\* whose parent it is not: the state after its first write is one.  A
\* successful tree.insert passes through a state in which numNodes is not the
\* number of reachable nodes: the state after its first write is one.
C17_TornBetweenWrites ==
    /\ (call.op = "remove" /\ call.branch \in TwoChildBranches /\ call.done = 1)
           => Torn
    /\ (call.op = "insert" /\ ~call.thrown /\ call.done = 1)
           => BST_size(Tree) # Cardinality(Nodes)

\* C17 witness: in the middle of a tree.remove of a node with two children, a
\* get of a key that was inserted and is not the one being removed returns
\* null, and traverse misses a surviving node.
C17_Witness ==
    /\ call.op = "remove" /\ call.branch \in TwoChildBranches
    /\ call.done >= 1 /\ call.todo # <<>>
    /\ Torn
    /\ \E k \in Present \ {call.key} : BST_get(Tree, k) = Null
    /\ \E n \in Survivors :
           \A i \in 1..Len(BST_traverse(Tree)) : BST_traverse(Tree)[i] # n

\* The child slots of the nodes S whose content differs between the tree as
\* it is and the heap w.
ChangedSlots(w, S) ==
    {<<n, "leftChild">> : n \in {m \in S : w.leftChild[m] # leftChild[m]}}
        \cup {<<n, "rightChild">> : n \in {m \in S : w.rightChild[m] # rightChild[m]}}

\* C18: insert of an absent key changes the parent of no existing node, and
\* of the child links of existing nodes only one, which was null and now
\* holds the new node (none when the tree was empty).  remove(k) of a present
\* key changes the parent only of proper descendants of the removed node, and
\* of a node outside the removed node's subtree it changes nothing but the
\* child link of the removed node's parent that pointed to the removed node.
C18_StructuralFrame ==
    LET nodes == Nodes
    IN  /\ \A k \in Keys \ Present, v \in Values :
               LET w == BST_insert(Tree, k, v).w
                   slots == ChangedSlots(w, nodes)
                   added == Reachable(w) \ nodes
               IN  /\ \A n \in nodes : w.parent[n] = parent[n]
                   /\ Cardinality(added) = 1
                   /\ Cardinality(slots) = IF root = Null THEN 0 ELSE 1
                   /\ \A s \in slots :
                          /\ Tree[s[2]][s[1]] = Null
                          /\ w[s[2]][s[1]] \in added
        /\ \A k \in Present :
               LET n == BST_get(Tree, k)
                   w == BST_remove(Tree, k).w
                   sub == Subtree(n)
               IN  /\ \A m \in nodes :
                          w.parent[m] # parent[m] => m \in sub \ {n}
                   /\ ChangedSlots(w, nodes \ sub) \subseteq
                          {s \in {parent[n]} \X {"leftChild", "rightChild"} :
                               Tree[s[2]][s[1]] = n}

\* C18 witness: a right child with two children has just been removed, a
\* deeper successor taking its place, below a root that kept its links; the
\* tree has room for an insertion and still a node with two children to remove.
C18_Witness ==
    /\ last.op = "remove" /\ last.branch = "deep successor"
    /\ Cardinality(Nodes) = MaxKey - 1
    /\ Keys \ Present # {}
    /\ "successor" \in Branches

\* Following parent links from n ends at null within fuel steps.
RECURSIVE ParentChainEnds(_, _)
ParentChainEnds(n, fuel) ==
    IF n = Null THEN TRUE
    ELSE IF fuel = 0 THEN FALSE
    ELSE ParentChainEnds(parent[n], fuel - 1)

\* The loop of Node.traverse, started with the stack ancestors and the node
\* currNode, ends within fuel iterations.
RECURSIVE traverseEnds(_, _, _)
traverseEnds(ancestors, currNode, fuel) ==
    IF currNode = Null /\ Len(ancestors) = 0 THEN TRUE
    ELSE IF fuel = 0 THEN FALSE
    ELSE IF currNode = Null
    THEN traverseEnds(SubSeq(ancestors, 1, Len(ancestors) - 1),
                      rightChild[ancestors[Len(ancestors)]], fuel - 1)
    ELSE traverseEnds(Append(ancestors, currNode), leftChild[currNode], fuel - 1)

\* C19: every operation terminates on every reachable tree: no node of the
\* tree is reached from its own children along child links, the chain of
\* parents of every node ends at null, and so each descent, each climb and
\* the loop of traverse end, traverse after two iterations per node.
C19_NoCycles ==
    /\ \A n \in Nodes :
           /\ n \notin ReachableFrom(leftChild[n], leftChild, rightChild)
           /\ n \notin ReachableFrom(rightChild[n], leftChild, rightChild)
           /\ ParentChainEnds(n, Cardinality(Nodes))
    /\ root # Null =>
           traverseEnds(<<root>>, leftChild[root], 2 * Cardinality(Nodes))

\* C19 witness: a deeper predecessor has just been moved up into the place
\* of a removed node with two children, and the tree that remains has a path
\* of three nodes.
C19_Witness ==
    /\ last.op = "remove" /\ last.branch = "deep predecessor"
    /\ \E n \in Nodes : parent[n] # Null /\ parent[parent[n]] # Null

\* The depth of every node object in the heap w, its distance from the root
\* along child links, and -1 for what the root does not reach: depths has the
\* depths found so far, and level the nodes d links below the root.
RECURSIVE Depths(_, _, _, _)
Depths(w, depths, level, d) ==
    IF level = {} \/ d > MaxKey THEN depths
    ELSE Depths(w, [n \in Ids |-> IF n \in level THEN d ELSE depths[n]],
                ({w.leftChild[m] : m \in level}
                     \cup {w.rightChild[m] : m \in level}) \ {Null}, d + 1)

Depth(w) == Depths(w, [n \in Ids |-> -1], {w.root} \ {Null}, 0)

\* The greatest of the depths f: the height of the tree, -1 if it is empty.
Height(f) == CHOOSE h \in {f[n] : n \in Ids} : \A n \in Ids : f[n] <= h

\* C20: remove(k) of a present key leaves every other node of the tree at
\* its depth or nearer to the root, so that the height does not grow;
\* insert of an absent key leaves every node of the tree at its depth and
\* adds the new node as a leaf.
C20_DepthUnderMutation ==
    LET before == Depth(Tree)
        nodes == Nodes
    IN  /\ \A k \in Present :
               LET after == Depth(BST_remove(Tree, k).w)
               IN  /\ \A n \in nodes \ {BST_get(Tree, k)} :
                          after[n] >= 0 /\ after[n] <= before[n]
                   /\ Height(after) <= Height(before)
        /\ \A k \in Keys \ Present, v \in Values :
               LET w == BST_insert(Tree, k, v).w
                   after == Depth(w)
                   new == BST_get(w, k)
               IN  /\ \A n \in nodes : after[n] = before[n]
                   /\ new \notin nodes /\ after[new] >= 0
                   /\ w.leftChild[new] = Null /\ w.rightChild[new] = Null

\* C20 witness: a node with a right child only has just been removed, its
\* subtree moving up; the tree that remains has a node two links below the
\* root, a node with two children and room for an insertion.
C20_Witness ==
    /\ last.op = "remove" /\ last.branch = "rightChild"
    /\ Height(Depth(Tree)) >= 2
    /\ \E n \in Nodes : Children(n) = 2
    /\ Keys \ Present # {}

====
